---------------------------- MODULE Spec2Model ----------------------------
(***************************************************************************)
(* Model of src/main.py: the anime link API.  One MongoDB collection of    *)
(* documents (store), and HTTP requests that run as coroutines: every      *)
(* awaited database call is one atomic step, and the code between two      *)
(* awaits is a step of its own or part of the step next to it.             *)
(*                                                                         *)
(* Strings that the code transforms (queries, slugs) are sequences of      *)
(* one-character strings, so lower/strip/replace are computed, not assumed.*)
(***************************************************************************)
EXTENDS Integers, Sequences, FiniteSets, TLC

(* ---------------------------- bounds ----------------------------------- *)
\* requests admitted in a run of the workloads that take one request after
\* another (also bounds the ObjectIds handed out)
MaxReq == 4
\* requests admitted in a run of the workloads whose requests overlap
MaxConc == 3
\* requests that may be in flight at the same time
NSlots == 2

Slots == 1..NSlots

(* ------------------------- python strings ------------------------------ *)
\* str.lower() on the alphabet {a, A, space, hyphen}
Lower(s) == [i \in 1..Len(s) |-> IF s[i] = "A" THEN "a" ELSE s[i]]

RECURSIVE LStrip(_)
LStrip(s) == IF s # <<>> /\ Head(s) = " " THEN LStrip(Tail(s)) ELSE s

RECURSIVE RStrip(_)
RStrip(s) ==
    IF s # <<>> /\ s[Len(s)] = " " THEN RStrip(SubSeq(s, 1, Len(s) - 1)) ELSE s

\* str.strip()
Strip(s) == RStrip(LStrip(s))

\* str.replace(old, new) for one-character old and new
Replace(s, old, new) == [i \in 1..Len(s) |-> IF s[i] = old THEN new ELSE s[i]]

\* clean_query = query.lower().strip()
CleanQuery(query) == Strip(Lower(query))

\* slug = clean_query.replace(" ", "-")
SlugOf(clean_query) == Replace(clean_query, " ", "-")

\* search_term = slug.replace("-", " ")
SearchTermOf(slug) == Replace(slug, "-", " ")

\* view_url = f"{BASE_URL}/view/{slug}"
ViewUrl(slug) == <<"BASE_URL", "/view/">> \o slug


(* --------------------------- python values ----------------------------- *)
\* Python's None where a string is expected (a JSON null title)
NullStr == "<None>"

\* Python's None where a document (dict) is expected: find_one found nothing
NoDoc == [id |-> 0]

\* get_hd_anime_info returned None
NoInfo == [title |-> "<no info>"]

(* ------------------------ external adapters ---------------------------- *)
\* What api.jikan.moe may answer.  ok = FALSE: the request, the JSON parse or
\* res['data'][0] raised.  title_english is the key's value, "<absent>" when
\* the key is missing, NullStr when it is null; synopsis likewise.
JikanAnswers ==
    { [ok |-> FALSE, title |-> "", title_english |-> "", synopsis |-> "", image |-> ""],
      [ok |-> TRUE, title |-> "Naruto-jp", title_english |-> "Naruto",
       synopsis |-> "syn-n", image |-> "img-n"],
      [ok |-> TRUE, title |-> "Bleach", title_english |-> "<absent>",
       synopsis |-> "<absent>", image |-> "img-b"],
      [ok |-> TRUE, title |-> "Kimi", title_english |-> NullStr,
       synopsis |-> "syn-k", image |-> "img-k"],
      [ok |-> TRUE, title |-> "Broken", title_english |-> "Broken",
       synopsis |-> NullStr, image |-> "img-x"] }

\* get_hd_anime_info on one answer: data.get('title_english', data['title']),
\* data.get('synopsis', 'No desc')[:300] + "...", and None on any exception
\* (slicing a null synopsis raises TypeError).
GetHdAnimeInfo(res) ==
    IF ~res.ok \/ res.synopsis = NullStr
    THEN NoInfo
    ELSE [title    |-> IF res.title_english = "<absent>" THEN res.title
                       ELSE res.title_english,
          synopsis |-> IF res.synopsis = "<absent>" THEN <<"No desc", "...">>
                       ELSE <<res.synopsis, "...">>,
          image    |-> res.image]

\* an item of the answer without a 'link' key: item['link'] raises
NoLink == "<no link>"

\* the links Google may return; the substrings the filter looks at
HasTme(link) == link \in {"https://t.me/x", "https://t.me/y",
                          "https://facebook.com/share?u=t.me/z"}
HasFacebook(link) == link = "https://facebook.com/share?u=t.me/z"
HasInstagram(link) == link = "https://instagram.com/p"

\* "Stop once we have 4 good links"
MaxValidLinks == 4

\* What the custom search may answer: failed = the request or the JSON parse
\* raised, or the answer has no 'items'.  An item may lack its link.
GoogleAnswers ==
    { [failed |-> TRUE, items |-> <<>>],
      [failed |-> FALSE, items |-> <<"https://instagram.com/p",
                                     "https://facebook.com/share?u=t.me/z">>],
      [failed |-> FALSE, items |-> <<"https://t.me/x">>],
      [failed |-> FALSE, items |-> <<"https://t.me/x",
                                     "https://facebook.com/share?u=t.me/z",
                                     "https://t.me/y">>],
      [failed |-> FALSE, items |-> <<"https://t.me/y", NoLink,
                                     "https://t.me/x">>] }

\* the loop over data['items']: keep the links that pass the filter, stop at
\* 4; an item without link raises, and the except clause leaves valid_links
\* as the loop had filled it
RECURSIVE ValidLinks(_, _)
ValidLinks(items, valid) ==
    IF items = <<>> \/ Len(valid) >= MaxValidLinks
    THEN valid
    ELSE IF Head(items) = NoLink
    THEN valid
    ELSE LET link == Head(items)
             keep == HasTme(link) /\ ~HasFacebook(link) /\ ~HasInstagram(link)
         IN ValidLinks(Tail(items), IF keep THEN Append(valid, link) ELSE valid)

\* Mutant of GoogleSearchApi: the filtered links are returned as they are,
\* without the fallback link when there is none.
GoogleSearchApiNoFallback(res) ==
    IF res.failed THEN <<>> ELSE ValidLinks(res.items, <<>>)

\* google_search_api: the filtered links, or the fallback link when none
GoogleSearchApi(res) ==
    LET valid_links == IF res.failed THEN <<>> ELSE ValidLinks(res.items, <<>>)
    IN IF valid_links = <<>> THEN <<"https://t.me/">> ELSE valid_links

(* ---------------------------- documents -------------------------------- *)
\* History fields of a document, kept beside the stored fields and never read
\* by a handler: h_origin is how the document came to be (the raw query and
\* the title and links a resolution inserted it with, and whether an admin
\* add has overwritten it since), h_last is the last vote action applied to
\* it with the vote fields it had before.
NoOrigin == [by |-> "admin"]
NoLast == [action |-> "<none>"]

VoteFields(d) == [likes |-> d.likes, dislikes |-> d.dislikes,
                  liked_ips |-> d.liked_ips, disliked_ips |-> d.disliked_ips]

\* Mutant of NewData: search_term is stored from the raw query instead of
\* clean_query.
NewDataRawTerm(id, query, info, tg_links) ==
    [id |-> id,
     search_term |-> query,
     title |-> info.title,
     synopsis |-> info.synopsis,
     thumbnail |-> info.image,
     telegram_links |-> tg_links,
     generated_url |-> ViewUrl(SlugOf(CleanQuery(query))),
     views |-> 0, likes |-> 0, dislikes |-> 0, reports |-> 0,
     liked_ips |-> {}, disliked_ips |-> {},
     h_origin |-> [by |-> "search", query |-> query, title |-> info.title,
                   links |-> tg_links, overwritten |-> FALSE],
     h_last |-> NoLast]

\* new_data of search_anime
NewData(id, query, info, tg_links) ==
    LET clean_query == CleanQuery(query)
        slug == SlugOf(clean_query)
    IN [id |-> id,
        search_term |-> clean_query,
        title |-> info.title,
        synopsis |-> info.synopsis,
        thumbnail |-> info.image,
        telegram_links |-> tg_links,
        generated_url |-> ViewUrl(slug),
        views |-> 0, likes |-> 0, dislikes |-> 0, reports |-> 0,
        liked_ips |-> {}, disliked_ips |-> {},
        h_origin |-> [by |-> "search", query |-> query, title |-> info.title,
                      links |-> tg_links, overwritten |-> FALSE],
        h_last |-> NoLast]

(* ------------------------ the collection ------------------------------- *)
Matching(st, term) == {i \in 1..Len(st) : st[i].search_term = term}

Min(S) == CHOOSE x \in S : \A y \in S : x <= y

\* collection.find_one({"search_term": term}): the first match in natural
\* order, or None
FindOne(st, term) ==
    IF Matching(st, term) = {} THEN NoDoc ELSE st[Min(Matching(st, term))]

\* collection.insert_one(doc): no unique index is declared on search_term
InsertOne(st, doc) == Append(st, doc)

\* one atomic single-document update: $addToSet, $pull, $inc and $set.  by
\* names the vote action that sends it, for the document's history field.
NoSet == [none |-> TRUE]

NoUpdate == [addLiked |-> {}, pullLiked |-> {}, addDisliked |-> {},
             pullDisliked |-> {}, incLikes |-> 0, incDislikes |-> 0,
             incReports |-> 0, incViews |-> 0, set |-> NoSet, by |-> NoLast]

ApplyUpdate(d, u) ==
    LET counted ==
            [d EXCEPT !.liked_ips = (@ \cup u.addLiked) \ u.pullLiked,
                      !.disliked_ips = (@ \cup u.addDisliked) \ u.pullDisliked,
                      !.likes = @ + u.incLikes,
                      !.dislikes = @ + u.incDislikes,
                      !.reports = @ + u.incReports,
                      !.views = @ + u.incViews,
                      !.h_last = IF u.by = NoLast THEN @
                                 ELSE [action |-> u.by.action,
                                       user_ip |-> u.by.user_ip,
                                       before |-> VoteFields(d)]]
    IN IF u.set = NoSet THEN counted
       ELSE [counted EXCEPT
               !.search_term = u.set.search_term,
               !.title = u.set.title,
               !.thumbnail = u.set.thumbnail,
               !.telegram_links = u.set.telegram_links,
               !.synopsis = u.set.synopsis,
               !.generated_url = u.set.generated_url,
               !.h_origin = IF @.by = "search" THEN [@ EXCEPT !.overwritten = TRUE]
                            ELSE @]

\* collection.update_one({"search_term": term}, update): the update applied
\* to the first match, nothing when there is none
UpdateOne(st, term, u) ==
    IF Matching(st, term) = {} THEN st
    ELSE [st EXCEPT ![Min(Matching(st, term))] = ApplyUpdate(@, u)]

\* collection.update_one({"_id": id}, update)
UpdateById(st, id, u) ==
    [i \in 1..Len(st) |-> IF st[i].id = id THEN ApplyUpdate(st[i], u) ELSE st[i]]

\* collection.delete_one({"_id": id})
DeleteOne(st, id) == SelectSeq(st, LAMBDA d : d.id # id)

(* ------------------------- handlers' pure parts ------------------------ *)
\* Mutant of CacheHitResponse: the links are read from the legacy
\* telegram_link key, which no stored document has, so its default is returned.
CacheHitResponseLegacy(cached) ==
    [status |-> "success", source |-> "database", title |-> cached.title,
     links |-> <<"#">>, website_link |-> cached.generated_url]

\* the response of search_anime on a cache hit
CacheHitResponse(cached) ==
    [status |-> "success", source |-> "database", title |-> cached.title,
     links |-> cached.telegram_links, website_link |-> cached.generated_url]

\* the response of search_anime after the insert
FetchedNewResponse(query, info, tg_links) ==
    [status |-> "success", source |-> "fetched_new", title |-> info.title,
     links |-> tg_links, website_link |-> ViewUrl(SlugOf(CleanQuery(query)))]

\* send_telegram_log: returns at once without token or chat id; title.upper()
\* raises on a None title, outside the try; the post itself is inside it
SendTelegramLog(configured, title) ==
    IF ~configured THEN "skipped"
    ELSE IF title = NullStr THEN "raised"
    ELSE "posted"

\* Mutant of LikeUpdate: a like by an identity that already likes is kept
\* (idempotent like) instead of being removed.
LikeUpdateNoToggle(user_ip, liked_ips, disliked_ips) ==
    IF user_ip \in liked_ips
    THEN [write |-> TRUE, status |-> "liked", update |-> NoUpdate]
    ELSE IF user_ip \in disliked_ips
    THEN [write |-> TRUE, status |-> "liked",
          update |-> [NoUpdate EXCEPT !.addLiked = {user_ip}, !.incLikes = 1,
                                      !.pullDisliked = {user_ip},
                                      !.incDislikes = -1]]
    ELSE [write |-> TRUE, status |-> "liked",
          update |-> [NoUpdate EXCEPT !.addLiked = {user_ip}, !.incLikes = 1]]

\* Mutant of LikeUpdate: switching from dislike to like pulls the identity
\* out of disliked_ips but forgets to decrement dislikes.
LikeUpdateKeepsCount(user_ip, liked_ips, disliked_ips) ==
    IF user_ip \in liked_ips
    THEN [write |-> TRUE, status |-> "removed_like",
          update |-> [NoUpdate EXCEPT !.pullLiked = {user_ip}, !.incLikes = -1]]
    ELSE IF user_ip \in disliked_ips
    THEN [write |-> TRUE, status |-> "liked",
          update |-> [NoUpdate EXCEPT !.addLiked = {user_ip}, !.incLikes = 1,
                                      !.pullDisliked = {user_ip}]]
    ELSE [write |-> TRUE, status |-> "liked",
          update |-> [NoUpdate EXCEPT !.addLiked = {user_ip}, !.incLikes = 1]]

\* user_action, action == "likes": the update it sends and the status it
\* returns, decided on the liked_ips and disliked_ips it read
LikeUpdate(user_ip, liked_ips, disliked_ips) ==
    IF user_ip \in liked_ips
    THEN [write |-> TRUE, status |-> "removed_like",
          update |-> [NoUpdate EXCEPT !.pullLiked = {user_ip}, !.incLikes = -1]]
    ELSE IF user_ip \in disliked_ips
    THEN [write |-> TRUE, status |-> "liked",
          update |-> [NoUpdate EXCEPT !.addLiked = {user_ip}, !.incLikes = 1,
                                      !.pullDisliked = {user_ip},
                                      !.incDislikes = -1]]
    ELSE [write |-> TRUE, status |-> "liked",
          update |-> [NoUpdate EXCEPT !.addLiked = {user_ip}, !.incLikes = 1]]

\* Mutant of DislikeUpdate: switching from like to dislike decrements likes
\* but leaves the identity in liked_ips.
DislikeUpdateKeepsLike(user_ip, liked_ips, disliked_ips) ==
    IF user_ip \in disliked_ips
    THEN [write |-> TRUE, status |-> "removed_dislike",
          update |-> [NoUpdate EXCEPT !.pullDisliked = {user_ip},
                                      !.incDislikes = -1]]
    ELSE IF user_ip \in liked_ips
    THEN [write |-> TRUE, status |-> "disliked",
          update |-> [NoUpdate EXCEPT !.addDisliked = {user_ip},
                                      !.incDislikes = 1, !.incLikes = -1]]
    ELSE [write |-> TRUE, status |-> "disliked",
          update |-> [NoUpdate EXCEPT !.addDisliked = {user_ip},
                                      !.incDislikes = 1]]

\* Mutant of DislikeUpdate: a first dislike adds the identity to disliked_ips
\* but forgets to increment dislikes.
DislikeUpdateNoInc(user_ip, liked_ips, disliked_ips) ==
    IF user_ip \in disliked_ips
    THEN [write |-> TRUE, status |-> "removed_dislike",
          update |-> [NoUpdate EXCEPT !.pullDisliked = {user_ip},
                                      !.incDislikes = -1]]
    ELSE IF user_ip \in liked_ips
    THEN [write |-> TRUE, status |-> "disliked",
          update |-> [NoUpdate EXCEPT !.addDisliked = {user_ip},
                                      !.incDislikes = 1,
                                      !.pullLiked = {user_ip}, !.incLikes = -1]]
    ELSE [write |-> TRUE, status |-> "disliked",
          update |-> [NoUpdate EXCEPT !.addDisliked = {user_ip}]]

\* user_action, action == "dislikes"
DislikeUpdate(user_ip, liked_ips, disliked_ips) ==
    IF user_ip \in disliked_ips
    THEN [write |-> TRUE, status |-> "removed_dislike",
          update |-> [NoUpdate EXCEPT !.pullDisliked = {user_ip},
                                      !.incDislikes = -1]]
    ELSE IF user_ip \in liked_ips
    THEN [write |-> TRUE, status |-> "disliked",
          update |-> [NoUpdate EXCEPT !.addDisliked = {user_ip},
                                      !.incDislikes = 1,
                                      !.pullLiked = {user_ip}, !.incLikes = -1]]
    ELSE [write |-> TRUE, status |-> "disliked",
          update |-> [NoUpdate EXCEPT !.addDisliked = {user_ip},
                                      !.incDislikes = 1]]

\* Mutant of ReportUpdate: the dislikes branch pasted without renaming the
\* counter.
ReportUpdateAsDislike ==
    [write |-> TRUE, status |-> "reported",
     update |-> [NoUpdate EXCEPT !.incDislikes = 1]]

\* user_action, action == "reports"
ReportUpdate ==
    [write |-> TRUE, status |-> "reported",
     update |-> [NoUpdate EXCEPT !.incReports = 1]]

\* user_action after the find_one: the branch on the action string; any other
\* string falls through to return {"status": "ok"}
UserActionUpdate(action, user_ip, liked_ips, disliked_ips) ==
    IF action = "likes" THEN LikeUpdate(user_ip, liked_ips, disliked_ips)
    ELSE IF action = "dislikes" THEN DislikeUpdate(user_ip, liked_ips, disliked_ips)
    ELSE IF action = "reports" THEN ReportUpdate
    ELSE [write |-> FALSE, status |-> "ok", update |-> NoUpdate]

\* data of add_anime_manual: the fields it sets on an existing document
AdminSet(form) ==
    [search_term |-> CleanQuery(form.search_keyword),
     title |-> form.title,
     thumbnail |-> form.thumbnail,
     telegram_links |-> <<form.telegram_link>>,
     synopsis |-> form.synopsis,
     generated_url |-> ViewUrl(SlugOf(CleanQuery(form.search_keyword)))]

\* the document add_anime_manual inserts when it found none
AdminData(id, form) ==
    [id |-> id,
     search_term |-> CleanQuery(form.search_keyword),
     title |-> form.title,
     synopsis |-> form.synopsis,
     thumbnail |-> form.thumbnail,
     telegram_links |-> <<form.telegram_link>>,
     generated_url |-> ViewUrl(SlugOf(CleanQuery(form.search_keyword))),
     views |-> 0, likes |-> 0, dislikes |-> 0, reports |-> 0,
     liked_ips |-> {}, disliked_ips |-> {},
     h_origin |-> NoOrigin,
     h_last |-> NoLast]

(* ------------------------------ state ---------------------------------- *)
VARIABLES
    store,     \* db.links: the documents in natural (insertion) order
    req,       \* the requests in flight, one per slot: locals and position
    nextId,    \* the next ObjectId
    admitted,  \* requests admitted so far
    telegram,  \* whether TELEGRAM_BOT_TOKEN and TELEGRAM_LOGGER_ID are set
    cookies,   \* the cookies the viewers' browsers hold: viewer, name, expires
    now,       \* the time in seconds
    viewlog    \* history: the view increments sent, with viewer, _id and time

vars == <<store, req, nextId, admitted, telegram, cookies, now, viewlog>>

Idle == [pc |-> "idle", kind |-> "none"]
NoResp == [status |-> "<pending>"]

Init ==
    /\ store = <<>>
    /\ req = [r \in Slots |-> Idle]
    /\ nextId = 1
    /\ admitted = 0
    /\ telegram \in BOOLEAN
    /\ cookies = {}
    /\ now = 0
    /\ viewlog = <<>>

\* the workload's budget of requests is not used up
Budget(max) == admitted < max

AllIdle == \A r \in Slots : req[r].pc = "idle"
HasFree == \E r \in Slots : req[r].pc = "idle"
FreeSlot == Min({r \in Slots : req[r].pc = "idle"})

\* a request arrives and its handler starts
Admit(request) ==
    /\ HasFree
    /\ req' = [req EXCEPT ![FreeSlot] = request]
    /\ admitted' = admitted + 1
    /\ UNCHANGED <<store, nextId, telegram, cookies, now, viewlog>>

\* max_age of the viewed_ cookie, in seconds
MaxAge == 86400

\* the browser of a viewer stores the cookie of a response under its name,
\* in place of the one it held under that name, until max_age has passed
StoreCookie(jar, viewer, name) ==
    {c \in jar : ~(c.viewer = viewer /\ c.name = name)}
        \cup {[viewer |-> viewer, name |-> name, expires |-> now + MaxAge]}

\* the browser sends the cookies that have not expired: request.cookies.get
HasCookie(viewer, name) ==
    \E c \in cookies : c.viewer = viewer /\ c.name = name /\ now < c.expires

\* the handler returned and the response is sent; a view response that
\* carries Set-Cookie leaves the cookie in the viewer's browser
Reply(r) ==
    /\ req[r].pc = "done"
    /\ req' = [req EXCEPT ![r] = Idle]
    /\ cookies' = IF req[r].kind = "view" /\ req[r].resp.set_cookie
                  THEN StoreCookie(cookies, req[r].viewer, req[r].cookie_name)
                  ELSE cookies
    /\ UNCHANGED <<store, nextId, admitted, telegram, now, viewlog>>

(* --------------------------- search_anime ------------------------------ *)
\* jikan and google keep the answers the adapters gave to this request; the
\* handler reads only info and tg_links
NoAnswer == [answered |-> FALSE]

SearchStart(query) ==
    Admit([pc |-> "lookup", kind |-> "search", query |-> query, info |-> NoInfo,
           tg_links |-> <<>>, ext |-> {}, resp |-> NoResp,
           jikan |-> NoAnswer, google |-> NoAnswer])

\* cached = await collection.find_one(...), and the return on a hit
SearchLookup(r) ==
    /\ req[r].pc = "lookup"
    /\ LET cached == FindOne(store, CleanQuery(req[r].query))
       IN \/ /\ cached # NoDoc
             /\ req' = [req EXCEPT ![r].pc = "done",
                                   ![r].resp = CacheHitResponse(cached)]
          \/ /\ cached = NoDoc
             /\ req' = [req EXCEPT ![r].pc = "fetch"]
    /\ UNCHANGED <<store, nextId, admitted, telegram, cookies, now, viewlog>>

\* Mutant of SearchFetch: google_search_api is called before the check of
\* info, so also when get_hd_anime_info returned None.
SearchFetchLinksFirst(r, jikan, google) ==
    /\ req[r].pc = "fetch"
    /\ \E jres \in jikan, gres \in google :
         LET info == GetHdAnimeInfo(jres)
         IN IF info = NoInfo
            THEN req' = [req EXCEPT
                           ![r].pc = "done",
                           ![r].ext = @ \cup {"refiner", "metadata", "links"},
                           ![r].jikan = jres,
                           ![r].google = gres,
                           ![r].resp = [status |-> "error", message |-> "Not Found"]]
            ELSE req' = [req EXCEPT
                           ![r].pc = "insert",
                           ![r].ext = @ \cup {"refiner", "metadata", "links"},
                           ![r].jikan = jres,
                           ![r].google = gres,
                           ![r].info = info,
                           ![r].tg_links = GoogleSearchApi(gres)]
    /\ UNCHANGED <<store, nextId, admitted, telegram, cookies, now, viewlog>>

\* the refiner call (its failure falls back to the raw query), then
\* get_hd_anime_info and, when it found something, google_search_api
SearchFetch(r, jikan, google) ==
    /\ req[r].pc = "fetch"
    /\ \E jres \in jikan :
         LET info == GetHdAnimeInfo(jres)
         IN IF info = NoInfo
            THEN req' = [req EXCEPT
                           ![r].pc = "done",
                           ![r].ext = @ \cup {"refiner", "metadata"},
                           ![r].jikan = jres,
                           ![r].resp = [status |-> "error", message |-> "Not Found"]]
            ELSE \E gres \in google :
                   req' = [req EXCEPT
                             ![r].pc = "insert",
                             ![r].ext = @ \cup {"refiner", "metadata", "links"},
                             ![r].jikan = jres,
                             ![r].google = gres,
                             ![r].info = info,
                             ![r].tg_links = GoogleSearchApi(gres)]
    /\ UNCHANGED <<store, nextId, admitted, telegram, cookies, now, viewlog>>

\* await collection.insert_one(new_data)
SearchInsert(r) ==
    /\ req[r].pc = "insert"
    /\ store' = InsertOne(store, NewData(nextId, req[r].query, req[r].info,
                                         req[r].tg_links))
    /\ nextId' = nextId + 1
    /\ req' = [req EXCEPT ![r].pc = "notify"]
    /\ UNCHANGED <<admitted, telegram, cookies, now, viewlog>>

\* send_telegram_log(...) and the return
SearchNotify(r) ==
    /\ req[r].pc = "notify"
    /\ LET sent == SendTelegramLog(telegram, req[r].info.title)
           ok == FetchedNewResponse(req[r].query, req[r].info, req[r].tg_links)
       IN \/ /\ sent = "skipped"
             /\ req' = [req EXCEPT ![r].pc = "done", ![r].resp = ok]
          \/ /\ sent = "raised"
             /\ req' = [req EXCEPT ![r].pc = "done",
                                   ![r].resp = [status |-> "500"]]
          \/ /\ sent = "posted"
             /\ \E posted \in {"notifier", "notifier_failed"} :
                  req' = [req EXCEPT ![r].pc = "done", ![r].resp = ok,
                                     ![r].ext = @ \cup {posted}]
    /\ UNCHANGED <<store, nextId, admitted, telegram, cookies, now, viewlog>>

(* ---------------------------- user_action ------------------------------ *)
ActionStart(slug, action, user_ip) ==
    Admit([pc |-> "read", kind |-> "action", slug |-> slug, action |-> action,
           user_ip |-> user_ip, anime |-> NoDoc, resp |-> NoResp])

\* anime = await collection.find_one(...); the returns that need no update
ActionRead(r) ==
    /\ req[r].pc = "read"
    /\ LET anime == FindOne(store, SearchTermOf(req[r].slug))
           todo == UserActionUpdate(req[r].action, req[r].user_ip,
                                    anime.liked_ips, anime.disliked_ips)
       IN \/ /\ anime = NoDoc
             /\ req' = [req EXCEPT ![r].pc = "done",
                                   ![r].resp = [status |-> "error"]]
          \/ /\ anime # NoDoc
             /\ todo.write
             /\ req' = [req EXCEPT ![r].pc = "update", ![r].anime = anime]
          \/ /\ anime # NoDoc
             /\ ~todo.write
             /\ req' = [req EXCEPT ![r].pc = "done", ![r].anime = anime,
                                   ![r].resp = [status |-> todo.status]]
    /\ UNCHANGED <<store, nextId, admitted, telegram, cookies, now, viewlog>>

\* await collection.update_one({"search_term": search_term}, update)
ActionUpdate(r) ==
    /\ req[r].pc = "update"
    /\ LET todo == UserActionUpdate(req[r].action, req[r].user_ip,
                                    req[r].anime.liked_ips,
                                    req[r].anime.disliked_ips)
           update == [todo.update EXCEPT
                        !.by = [action |-> req[r].action,
                                user_ip |-> req[r].user_ip]]
       IN /\ store' = UpdateOne(store, SearchTermOf(req[r].slug), update)
          /\ req' = [req EXCEPT ![r].pc = "done",
                                ![r].resp = [status |-> todo.status]]
    /\ UNCHANGED <<nextId, admitted, telegram, cookies, now, viewlog>>

(* ------------------------------ view_page ------------------------------ *)
\* cookie_name = f"viewed_{slug}"
CookieName(slug) == <<"viewed_">> \o slug

\* response.set_cookie builds the header with http.cookies, which raises
\* CookieError on a key that holds a space
LegalKey(name) == \A i \in 1..Len(name) : name[i] # " "

\* GET /view/{slug} by a viewer's browser; the path parameter arrives
\* percent-decoded, so a slug may hold a space
ViewStart(slug, viewer) ==
    Admit([pc |-> "view", kind |-> "view", slug |-> slug, viewer |-> viewer,
           cookie_name |-> CookieName(slug),
           has_cookie |-> HasCookie(viewer, CookieName(slug)),
           anime |-> NoDoc, resp |-> NoResp])

\* anime = await collection.find_one(...), the 404 page, the rendering of
\* view.html with the document read, and the return when the cookie is there
ViewFind(r) ==
    /\ req[r].pc = "view"
    /\ LET anime == FindOne(store, SearchTermOf(req[r].slug))
       IN \/ /\ anime = NoDoc
             /\ req' = [req EXCEPT
                          ![r].pc = "done",
                          ![r].resp = [status |-> "404", set_cookie |-> FALSE]]
          \/ /\ anime # NoDoc
             /\ req[r].has_cookie
             /\ req' = [req EXCEPT
                          ![r].pc = "done",
                          ![r].anime = anime,
                          ![r].resp = [status |-> "200", set_cookie |-> FALSE,
                                       views |-> anime.views]]
          \/ /\ anime # NoDoc
             /\ ~req[r].has_cookie
             /\ req' = [req EXCEPT ![r].pc = "inc", ![r].anime = anime]
    /\ UNCHANGED <<store, nextId, admitted, telegram, cookies, now, viewlog>>

\* await collection.update_one({"_id": anime["_id"]}, {"$inc": {"views": 1}}),
\* then response.set_cookie(...) and the return
ViewInc(r) ==
    /\ req[r].pc = "inc"
    /\ store' = UpdateById(store, req[r].anime.id,
                           [NoUpdate EXCEPT !.incViews = 1])
    /\ viewlog' = Append(viewlog, [viewer |-> req[r].viewer,
                                   id |-> req[r].anime.id, at |-> now])
    /\ req' = [req EXCEPT
                 ![r].pc = "done",
                 ![r].resp = IF LegalKey(req[r].cookie_name)
                             THEN [status |-> "200", set_cookie |-> TRUE,
                                   views |-> req[r].anime.views]
                             ELSE [status |-> "500", set_cookie |-> FALSE]]
    /\ UNCHANGED <<nextId, admitted, telegram, cookies, now>>

\* time passes
Tick(step, max) ==
    /\ now + step <= max
    /\ now' = now + step
    /\ UNCHANGED <<store, req, nextId, admitted, telegram, cookies, viewlog>>

(* -------------------------- add_anime_manual --------------------------- *)
\* get_current_username raises 401 before the handler runs
AdminStart(form, authorized) ==
    Admit([pc |-> IF authorized THEN "find" ELSE "done", kind |-> "admin",
           form |-> form, existing |-> NoDoc,
           resp |-> IF authorized THEN NoResp ELSE [status |-> "401"]])

\* existing = await collection.find_one({"search_term": clean_query})
AdminFind(r) ==
    /\ req[r].pc = "find"
    /\ req' = [req EXCEPT
                 ![r].pc = "write",
                 ![r].existing =
                     FindOne(store, CleanQuery(req[r].form.search_keyword))]
    /\ UNCHANGED <<store, nextId, admitted, telegram, cookies, now, viewlog>>

\* update_one($set) or insert_one, then send_telegram_log and the redirect
AdminWrite(r) ==
    /\ req[r].pc = "write"
    /\ LET form == req[r].form
           update == [NoUpdate EXCEPT !.set = AdminSet(form)]
       IN \/ /\ req[r].existing # NoDoc
             /\ store' = UpdateOne(store, CleanQuery(form.search_keyword), update)
             /\ nextId' = nextId
          \/ /\ req[r].existing = NoDoc
             /\ store' = InsertOne(store, AdminData(nextId, form))
             /\ nextId' = nextId + 1
    /\ req' = [req EXCEPT ![r].pc = "done", ![r].resp = [status |-> "303"]]
    /\ UNCHANGED <<admitted, telegram, cookies, now, viewlog>>

(* ----------------------------- delete_anime ---------------------------- *)
\* anime_id 0 stands for a string that is no ObjectId
DeleteStart(anime_id, authorized) ==
    Admit([pc |-> IF authorized THEN "delete" ELSE "done", kind |-> "delete",
           anime_id |-> anime_id,
           resp |-> IF authorized THEN NoResp ELSE [status |-> "401"]])

\* try: await collection.delete_one({"_id": ObjectId(anime_id)}) except: pass
DeleteDo(r) ==
    /\ req[r].pc = "delete"
    /\ store' = IF req[r].anime_id = 0 THEN store
                ELSE DeleteOne(store, req[r].anime_id)
    /\ req' = [req EXCEPT ![r].pc = "done", ![r].resp = [status |-> "303"]]
    /\ UNCHANGED <<nextId, admitted, telegram, cookies, now, viewlog>>

(* ------------------------------ workloads ------------------------------ *)
\* raw queries: "A", " a" (both clean to "a") and "a a" (slug "a-a")
Queries == { <<"A">>, <<" ", "a">>, <<"a", " ", "a">> }
Slugs == { <<"a">>, <<"a", "-", "a">> }
Actions == {"likes", "dislikes", "reports", "bogus"}
Ips == {"ip1", "ip2", "ip3"}
Forms == { [search_keyword |-> <<"A">>, title |-> "Manual", thumbnail |-> "img-m",
            telegram_link |-> "https://t.me/m", synopsis |-> "Manual Add"] }
DocIds == {store[i].id : i \in 1..Len(store)}

\* one answer of each adapter, for the workloads that only need an Entry
OneJikan == {j \in JikanAnswers : j.title_english = "Naruto"}
OneGoogle == {g \in GoogleAnswers : g.items = <<"https://t.me/x">>}

\* the identities of the vote requests in flight
VotingIps == {req[r].user_ip : r \in {x \in Slots : req[x].kind = "action"}}

SearchSteps(r, jikan, google) ==
    \/ SearchLookup(r)
    \/ SearchFetch(r, jikan, google)
    \/ SearchInsert(r)
    \/ SearchNotify(r)

ActionSteps(r) ==
    \/ ActionRead(r)
    \/ ActionUpdate(r)

AdminSteps(r) ==
    \/ AdminFind(r)
    \/ AdminWrite(r)
    \/ DeleteDo(r)

\* Spec: resolutions, admin adds and deletes, one request after another (a
\* request is admitted only when no other is in flight)
Next ==
    \/ \E query \in Queries : Budget(MaxReq) /\ AllIdle /\ SearchStart(query)
    \/ \E form \in Forms, authorized \in BOOLEAN :
         Budget(MaxReq) /\ AllIdle /\ AdminStart(form, authorized)
    \/ \E anime_id \in DocIds \cup {0}, authorized \in BOOLEAN :
         Budget(MaxReq) /\ AllIdle /\ DeleteStart(anime_id, authorized)
    \/ \E r \in Slots : SearchSteps(r, JikanAnswers, GoogleAnswers)
    \/ \E r \in Slots : AdminSteps(r)
    \/ \E r \in Slots : Reply(r)

Spec == Init /\ [][Next]_vars

\* SpecSearch: resolutions that overlap; "A" and " a" clean to the same query
SearchQueries == { <<"A">>, <<" ", "a">> }
SearchJikan == {j \in JikanAnswers : j.title \in {"", "Naruto-jp", "Bleach"}}

SearchNext ==
    \/ \E query \in SearchQueries : Budget(MaxConc) /\ SearchStart(query)
    \/ \E r \in Slots : SearchSteps(r, SearchJikan, OneGoogle)
    \/ \E r \in Slots : Reply(r)

SpecSearch == Init /\ [][SearchNext]_vars

\* the vote workloads start with the notifier configured and create one Entry
VoteInit == Init /\ telegram

CreateEntry == store = <<>> /\ admitted = 0 /\ SearchStart(<<"A">>)

\* SpecVoteSeq: one Entry, then vote requests one after another
VoteSeqNext ==
    \/ CreateEntry
    \/ \E slug \in Slugs, action \in Actions, user_ip \in Ips :
         Budget(MaxReq) /\ AllIdle /\ ActionStart(slug, action, user_ip)
    \/ \E r \in Slots : SearchSteps(r, OneJikan, OneGoogle)
    \/ \E r \in Slots : ActionSteps(r)
    \/ \E r \in Slots : Reply(r)

SpecVoteSeq == VoteInit /\ [][VoteSeqNext]_vars

\* SpecVoteDistinct: one Entry, then vote requests that overlap, those in
\* flight at the same time coming from pairwise different identities
VoteDistinctNext ==
    \/ CreateEntry
    \/ \E action \in Actions \ {"bogus"}, user_ip \in Ips \ VotingIps :
         Budget(MaxConc) /\ store # <<>> /\ ActionStart(<<"a">>, action, user_ip)
    \/ \E r \in Slots : SearchSteps(r, OneJikan, OneGoogle)
    \/ \E r \in Slots : ActionSteps(r)
    \/ \E r \in Slots : Reply(r)

SpecVoteDistinct == VoteInit /\ [][VoteDistinctNext]_vars

\* SpecVoteAny: one Entry, then vote requests that overlap, from any identity
VoteAnyNext ==
    \/ CreateEntry
    \/ \E action \in Actions \ {"bogus"}, user_ip \in Ips :
         Budget(MaxConc) /\ store # <<>> /\ ActionStart(<<"a">>, action, user_ip)
    \/ \E r \in Slots : SearchSteps(r, OneJikan, OneGoogle)
    \/ \E r \in Slots : ActionSteps(r)
    \/ \E r \in Slots : Reply(r)

SpecVoteAny == VoteInit /\ [][VoteAnyNext]_vars

\* the view workloads: the Entry "a a", whose generated_url ends in the slug
\* "a-a"; /view/a%20a addresses the same Entry, /view/a no Entry
CreateViewed == store = <<>> /\ admitted = 0 /\ SearchStart(<<"a", " ", "a">>)

ViewSlugs == { <<"a", "-", "a">>, <<"a", " ", "a">>, <<"a">> }
Viewers == {"v1", "v2"}

\* the clock advances by half the cookie's max_age, up to MaxTicks times
MaxTicks == 2
ClockStep == MaxAge \div 2
MaxTime == MaxTicks * ClockStep

ViewSteps(r) ==
    \/ ViewFind(r)
    \/ ViewInc(r)

\* SpecViewSeq: one Entry, then view requests one after another; time passes
\* between the requests
ViewSeqNext ==
    \/ CreateViewed
    \/ \E slug \in ViewSlugs, viewer \in Viewers :
         Budget(MaxReq) /\ AllIdle /\ store # <<>> /\ ViewStart(slug, viewer)
    \/ AllIdle /\ Tick(ClockStep, MaxTime)
    \/ \E r \in Slots : SearchSteps(r, OneJikan, OneGoogle)
    \/ \E r \in Slots : ViewSteps(r)
    \/ \E r \in Slots : Reply(r)

SpecViewSeq == VoteInit /\ [][ViewSeqNext]_vars

\* SpecViewAny: one Entry, then view requests of its canonical URL that
\* overlap, from any viewer, while time passes
ViewAnyNext ==
    \/ CreateViewed
    \/ \E viewer \in Viewers :
         Budget(MaxConc) /\ store # <<>> /\ ViewStart(<<"a", "-", "a">>, viewer)
    \/ Tick(ClockStep, MaxTime)
    \/ \E r \in Slots : SearchSteps(r, OneJikan, OneGoogle)
    \/ \E r \in Slots : ViewSteps(r)
    \/ \E r \in Slots : Reply(r)

SpecViewAny == VoteInit /\ [][ViewAnyNext]_vars

\* SpecAdminAny: admin adds, resolutions of the same key and likes of its
\* Entry, overlapping
AdminAnyNext ==
    \/ \E form \in Forms, authorized \in BOOLEAN :
         Budget(MaxConc) /\ AdminStart(form, authorized)
    \/ Budget(MaxConc) /\ SearchStart(<<"A">>)
    \/ Budget(MaxConc) /\ store # <<>> /\ ActionStart(<<"a">>, "likes", "ip1")
    \/ \E r \in Slots : AdminFind(r)
    \/ \E r \in Slots : AdminWrite(r)
    \/ \E r \in Slots : SearchSteps(r, OneJikan, OneGoogle)
    \/ \E r \in Slots : ActionSteps(r)
    \/ \E r \in Slots : Reply(r)

SpecAdminAny == VoteInit /\ [][AdminAnyNext]_vars

\* SpecBlank: resolutions one after another whose raw query is empty, made
\* of spaces only, or "A"
BlankQueries == { <<>>, <<" ">>, <<" ", " ">>, <<"A">> }

BlankNext ==
    \/ \E query \in BlankQueries : Budget(MaxReq) /\ AllIdle /\ SearchStart(query)
    \/ \E r \in Slots : SearchSteps(r, SearchJikan, OneGoogle)
    \/ \E r \in Slots : Reply(r)

SpecBlank == Init /\ [][BlankNext]_vars

\* SpecAny: resolutions, views, vote actions and admin adds of one key, in
\* any order and overlapping; one voter and one viewer
AnyNext ==
    \/ Budget(MaxReq) /\ SearchStart(<<"A">>)
    \/ \E action \in Actions \ {"bogus"} :
         Budget(MaxReq) /\ store # <<>> /\ ActionStart(<<"a">>, action, "ip1")
    \/ Budget(MaxReq) /\ store # <<>> /\ ViewStart(<<"a">>, "v1")
    \/ \E form \in Forms : Budget(MaxReq) /\ AdminStart(form, TRUE)
    \/ \E r \in Slots : SearchSteps(r, OneJikan, OneGoogle)
    \/ \E r \in Slots : ActionSteps(r)
    \/ \E r \in Slots : ViewSteps(r)
    \/ \E r \in Slots : AdminFind(r)
    \/ \E r \in Slots : AdminWrite(r)
    \/ \E r \in Slots : Reply(r)

SpecAny == VoteInit /\ [][AnyNext]_vars

\* the slug of a canonical URL: the path parameter of /view/{slug}
SlugIn(url) == SubSeq(url, Len(ViewUrl(<<>>)) + 1, Len(url))

\* SpecSlug: resolutions of queries with a space, a run of spaces and a
\* hyphen, then views and likes through the stored Entries' canonical URLs,
\* one request after another
SlugQueries == { <<"a", " ", "a">>, <<"a", " ", " ", "a">>, <<"a", "-", "a">> }
CanonicalSlugs == {SlugIn(store[i].generated_url) : i \in 1..Len(store)}

SlugNext ==
    \/ \E query \in SlugQueries : Budget(MaxReq) /\ AllIdle /\ SearchStart(query)
    \/ \E slug \in CanonicalSlugs :
         Budget(MaxReq) /\ AllIdle /\ ViewStart(slug, "v1")
    \/ \E slug \in CanonicalSlugs :
         Budget(MaxReq) /\ AllIdle /\ ActionStart(slug, "likes", "ip1")
    \/ \E r \in Slots : SearchSteps(r, OneJikan, OneGoogle)
    \/ \E r \in Slots : ViewSteps(r)
    \/ \E r \in Slots : ActionSteps(r)
    \/ \E r \in Slots : Reply(r)

SpecSlug == VoteInit /\ [][SlugNext]_vars

(* ------------------------------- claims -------------------------------- *)
Docs == {store[i] : i \in 1..Len(store)}

\* C1: once overlapping first-time resolutions of the same normalized query
\* have all returned, the store holds exactly one Entry whose search_term is
\* that query.
C1_OneEntryPerQuery ==
    AllIdle => \A d \in Docs : Cardinality(Matching(store, d.search_term)) = 1

\* C2: with vote requests running one after another on an Entry created with
\* zero counters and empty vote-sets, after each action likes = |liked_ips|,
\* dislikes = |disliked_ips| and the two sets are disjoint.
C2_VoteInvariantSequential ==
    \A d \in Docs :
        /\ d.likes = Cardinality(d.liked_ips)
        /\ d.dislikes = Cardinality(d.disliked_ips)
        /\ d.liked_ips \cap d.disliked_ips = {}

\* an Entry that has been liked, disliked and reported
C2_Witness ==
    \E d \in Docs : d.likes >= 1 /\ d.dislikes >= 1 /\ d.reports >= 1

\* C3: with overlapping vote requests by pairwise different identities, each a
\* read followed by one atomic update, likes = |liked_ips| and
\* dislikes = |disliked_ips| in every state, so also where an interleaving
\* ends.
C3_CountsMatchDistinct ==
    \A d \in Docs :
        d.likes = Cardinality(d.liked_ips) /\ d.dislikes = Cardinality(d.disliked_ips)

\* two votes by different identities that both read the Entry before either
\* updated it, and have both updated it
C3_Witness ==
    \E r1, r2 \in Slots :
        /\ req[r1].kind = "action" /\ req[r1].pc = "done"
        /\ req[r2].kind = "action" /\ req[r2].pc = "done"
        /\ req[r1].user_ip # req[r2].user_ip
        /\ req[r1].resp.status = "liked"
        /\ req[r2].resp.status = "disliked"
        /\ req[r1].anime = req[r2].anime

\* C4: when overlapping vote requests by the same identity have all returned,
\* likes = |liked_ips|, dislikes = |disliked_ips| and no identity is in both
\* sets.
C4_SameIdentityConsistent ==
    AllIdle =>
        \A d \in Docs :
            /\ d.likes = Cardinality(d.liked_ips)
            /\ d.dislikes = Cardinality(d.disliked_ips)
            /\ \A ip \in Ips : ~(ip \in d.liked_ips /\ ip \in d.disliked_ips)

\* the like/dislike relationship of an identity to an Entry
VoteState(d, ip) ==
    IF ip \in d.liked_ips THEN "liked"
    ELSE IF ip \in d.disliked_ips THEN "disliked"
    ELSE "none"

\* the transition table of the claim: resulting state, change of likes and of
\* dislikes, and returned status
TransitionTable(action, state) ==
    CASE action = "likes" /\ state = "none" ->
           [state |-> "liked", likes |-> 1, dislikes |-> 0,
            status |-> "liked"]
      [] action = "likes" /\ state = "liked" ->
           [state |-> "none", likes |-> -1, dislikes |-> 0,
            status |-> "removed_like"]
      [] action = "likes" /\ state = "disliked" ->
           [state |-> "liked", likes |-> 1, dislikes |-> -1,
            status |-> "liked"]
      [] action = "dislikes" /\ state = "none" ->
           [state |-> "disliked", likes |-> 0, dislikes |-> 1,
            status |-> "disliked"]
      [] action = "dislikes" /\ state = "disliked" ->
           [state |-> "none", likes |-> 0, dislikes |-> -1,
            status |-> "removed_dislike"]
      [] action = "dislikes" /\ state = "liked" ->
           [state |-> "disliked", likes |-> -1, dislikes |-> 1,
            status |-> "disliked"]

\* a likes or dislikes request that found its Entry and has returned
VoteDone(r) ==
    /\ req[r].kind = "action"
    /\ req[r].pc = "done"
    /\ req[r].anime # NoDoc
    /\ req[r].action \in {"likes", "dislikes"}

\* the Entry a returned action request addressed, as it is now
Addressed(r) == FindOne(store, SearchTermOf(req[r].slug))

\* C5: a single likes or dislikes action on an existing Entry follows the
\* transition table (none -> liked, liked -> none, disliked -> liked, and the
\* mirror image for dislikes): the identity's resulting state, the change of
\* likes and dislikes and the returned status are the table's, and no other
\* identity's membership changes.
C5_TransitionTable ==
    \A r \in Slots :
        VoteDone(r) =>
            LET before == req[r].anime
                after == Addressed(r)
                ip == req[r].user_ip
                row == TransitionTable(req[r].action, VoteState(before, ip))
            IN /\ VoteState(after, ip) = row.state
               /\ after.likes = before.likes + row.likes
               /\ after.dislikes = before.dislikes + row.dislikes
               /\ req[r].resp.status = row.status
               /\ \A other \in Ips \ {ip} :
                     /\ (other \in after.liked_ips) = (other \in before.liked_ips)
                     /\ (other \in after.disliked_ips) = (other \in before.disliked_ips)

\* a like by an identity that had disliked, with another identity's vote on
\* the Entry
C5_Witness ==
    \E r \in Slots :
        /\ VoteDone(r)
        /\ req[r].action = "likes"
        /\ VoteState(req[r].anime, req[r].user_ip) = "disliked"
        /\ req[r].anime.liked_ips # {}
        /\ req[r].resp.status = "liked"

\* a returned vote request r whose Entry's previous vote action was a like by
\* the same identity from state none
AfterOwnLike(r) ==
    /\ VoteDone(r)
    /\ req[r].anime.h_last.action = "likes"
    /\ req[r].anime.h_last.user_ip = req[r].user_ip
    /\ VoteState(req[r].anime.h_last.before, req[r].user_ip) = "none"

\* C6: toggle laws for one identity acting sequentially from state none:
\* likes then likes restores likes, dislikes, liked_ips and disliked_ips;
\* likes then dislikes moves the identity from liked_ips to disliked_ips, with
\* likes back at its original value and dislikes one above it.
C6_ToggleLaws ==
    \A r \in Slots :
        AfterOwnLike(r) =>
            LET original == req[r].anime.h_last.before
                after == Addressed(r)
                ip == req[r].user_ip
            IN /\ req[r].action = "likes" => VoteFields(after) = original
               /\ req[r].action = "dislikes" =>
                     /\ after.liked_ips = original.liked_ips
                     /\ after.disliked_ips = original.disliked_ips \cup {ip}
                     /\ ip \in req[r].anime.liked_ips
                     /\ after.likes = original.likes
                     /\ after.dislikes = original.dislikes + 1

\* likes then likes by one identity, on an Entry another identity had voted on
C6_Witness ==
    \E r \in Slots :
        /\ AfterOwnLike(r)
        /\ req[r].action = "likes"
        /\ req[r].anime.h_last.before.disliked_ips # {}

\* the step in which request r sends its update
UpdateStep(r) == req[r].pc = "update" /\ req'[r].pc = "done"

\* C7: a reports action on an existing Entry increases its reports by exactly
\* 1, whatever the identity's vote state and earlier reports, and leaves
\* likes, dislikes, liked_ips, disliked_ips and views (and every other Entry)
\* unchanged; no vote action decreases reports.
C7_ReportAddsOne ==
    [][\A r \in Slots :
          UpdateStep(r) =>
              /\ Len(store') = Len(store)
              /\ Matching(store, SearchTermOf(req[r].slug)) # {}
              /\ \A i \in 1..Len(store) : store'[i].reports >= store[i].reports
              /\ req[r].action = "reports" =>
                    \A i \in 1..Len(store) :
                        IF i = Min(Matching(store, SearchTermOf(req[r].slug)))
                        THEN /\ store'[i].reports = store[i].reports + 1
                             /\ VoteFields(store'[i]) = VoteFields(store[i])
                             /\ store'[i].views = store[i].views
                        ELSE store'[i] = store[i]]_vars

\* one identity has reported the Entry twice
C7_Witness ==
    \E r1, r2 \in Slots :
        /\ r1 # r2
        /\ req[r1].kind = "action" /\ req[r1].pc = "done"
        /\ req[r2].kind = "action" /\ req[r2].pc = "done"
        /\ req[r1].resp.status = "reported" /\ req[r2].resp.status = "reported"
        /\ req[r1].user_ip = req[r2].user_ip
        /\ Addressed(r1).reports = 2

\* C8: an action request whose action string is not likes, dislikes or
\* reports returns the error status and changes no Entry.
C8_UnknownActionRejected ==
    \A r \in Slots :
        (/\ req[r].kind = "action"
         /\ req[r].pc = "done"
         /\ req[r].action \notin {"likes", "dislikes", "reports"}) =>
            /\ req[r].resp.status = "error"
            /\ Addressed(r) = req[r].anime

\* the step in which resolution r gets the answer of its cache lookup
LookupStep(r) ==
    req[r].kind = "search" /\ req[r].pc = "lookup" /\ req'[r].pc # "lookup"

\* C9: a resolution that finds an Entry for its normalized query returns
\* success with source "database" and the stored title and links, has called
\* neither refiner, metadata resolver, link resolver nor notifier, and leaves
\* the store unchanged.
C9_CacheHitNoEffects ==
    [][\A r \in Slots :
          (LookupStep(r) /\ FindOne(store, CleanQuery(req[r].query)) # NoDoc) =>
              LET cached == FindOne(store, CleanQuery(req[r].query))
              IN /\ req'[r].pc = "done"
                 /\ req'[r].resp.status = "success"
                 /\ req'[r].resp.source = "database"
                 /\ req'[r].resp.title = cached.title
                 /\ req'[r].resp.links = cached.telegram_links
                 /\ req'[r].ext = {}
                 /\ store' = store
                 /\ nextId' = nextId]_vars

\* a resolution returned from the cache while another resolution of the same
\* normalized query was in flight
C9_Witness ==
    \E r1, r2 \in Slots :
        /\ r1 # r2
        /\ req[r1].kind = "search" /\ req[r1].pc = "done"
        /\ req[r1].resp.status = "success"
        /\ req[r1].resp.source = "database"
        /\ req[r2].kind = "search" /\ req[r2].pc \notin {"done", "lookup"}
        /\ CleanQuery(req[r1].query) = CleanQuery(req[r2].query)

\* the stored Entries that a successful resolution of raw query q created
\* (the creating request returned success: the notifier did not raise)
CreatedBy(q) ==
    {d \in Docs : /\ d.h_origin.by = "search"
                  /\ d.h_origin.query = q
                  /\ SendTelegramLog(telegram, d.h_origin.title) # "raised"}

\* resolution r' returns from the cache what the creating resolution returned
SameAsFirst(d, after) ==
    /\ after.pc = "done"
    /\ after.resp.status = "success"
    /\ after.resp.source = "database"
    /\ after.resp.title = d.h_origin.title
    /\ after.resp.links = d.h_origin.links
    /\ after.ext = {}

\* C10 as stated: if a resolution of a raw query succeeded by creating an
\* Entry and the Entry is not deleted, every later sequential resolution of
\* the same raw query is a cache hit with the first one's title and links,
\* without insert or fetch.
C10_LaterSameAsFirst ==
    [][\A r \in Slots :
          LookupStep(r) =>
              \A d \in CreatedBy(req[r].query) :
                  SameAsFirst(d, req'[r]) /\ store' = store]_vars

\* C10 as amended: if a resolution of a raw query succeeded by creating an
\* Entry and the Entry is not deleted, every later sequential resolution of
\* the same raw query is a cache hit, without insert or fetch, that returns
\* the Entry's stored title and links: those of the first resolution unless
\* an admin add has overwritten the Entry since.
C10_LaterSameUnlessOverwritten ==
    [][\A r \in Slots :
          LookupStep(r) =>
              \A d \in CreatedBy(req[r].query) :
                  /\ req'[r].pc = "done"
                  /\ req'[r].resp.source = "database"
                  /\ req'[r].resp.title = d.title
                  /\ req'[r].resp.links = d.telegram_links
                  /\ req'[r].ext = {}
                  /\ store' = store
                  /\ ~d.h_origin.overwritten => SameAsFirst(d, req'[r])]_vars

\* a second resolution of a raw query returned the Entry the first created
C10_Witness ==
    \E r \in Slots :
        /\ req[r].kind = "search" /\ req[r].pc = "done"
        /\ req[r].ext = {}
        /\ \E d \in CreatedBy(req[r].query) :
              ~d.h_origin.overwritten /\ SameAsFirst(d, req[r])

\* the step in which resolution r, after a cache miss, calls the refiner, the
\* metadata resolver and (when it goes on) the link resolver
FetchStep(r) ==
    req[r].kind = "search" /\ req[r].pc = "fetch" /\ req'[r].pc # "fetch"

\* C11: on a cache miss where the metadata resolver returns not-found or
\* fails, the resolution ends with the error / Not Found result, inserts no
\* Entry and calls neither the link resolver nor the notifier.
C11_NotFoundNoEffects ==
    [][\A r \in Slots :
          (FetchStep(r) /\ GetHdAnimeInfo(req'[r].jikan) = NoInfo) =>
              /\ req'[r].pc = "done"
              /\ req'[r].resp = [status |-> "error", message |-> "Not Found"]
              /\ req'[r].ext \cap {"links", "notifier", "notifier_failed"} = {}
              /\ req'[r].google = NoAnswer
              /\ store' = store
              /\ nextId' = nextId]_vars

\* a resolution ended Not Found because the resolver raised on an answer with
\* a null synopsis, while the store holds an Entry under another query
C11_Witness ==
    \E r \in Slots :
        /\ req[r].kind = "search" /\ req[r].pc = "done"
        /\ req[r].jikan # NoAnswer
        /\ req[r].jikan.ok /\ req[r].jikan.synopsis = NullStr
        /\ req[r].resp = [status |-> "error", message |-> "Not Found"]
        /\ store # <<>>
        /\ FindOne(store, CleanQuery(req[r].query)) = NoDoc

\* link i of the resolver's answer is a qualifying link: a t.me link that is
\* neither a facebook nor an instagram link
Qualifies(gres, i) ==
    /\ gres.items[i] # NoLink
    /\ HasTme(gres.items[i])
    /\ ~HasFacebook(gres.items[i])
    /\ ~HasInstagram(gres.items[i])

\* the link resolver failed: on the request, or on an item of the answer
ResolverFailed(gres) ==
    gres.failed \/ \E i \in 1..Len(gres.items) : gres.items[i] = NoLink

\* the items the resolver got to see before it failed, if it did
SeenItems(gres) ==
    IF gres.failed THEN {}
    ELSE {i \in 1..Len(gres.items) : \A j \in 1..i : gres.items[j] # NoLink}

\* the resolver found no qualifying link
NoneFound(gres) == \A i \in SeenItems(gres) : ~Qualifies(gres, i)

\* the step in which resolution r inserts its Entry
InsertStep(r) ==
    req[r].kind = "search" /\ req[r].pc = "insert" /\ req'[r].pc # "insert"

\* the insert of resolution r persists an Entry with the links r holds, and
\* every Entry created by the pipeline was created with at least one link and
\* has one
PersistedWithLinks ==
    /\ \A r \in Slots :
          InsertStep(r) =>
              /\ Len(store') = Len(store) + 1
              /\ SubSeq(store', 1, Len(store)) = store
              /\ store'[Len(store')].search_term = CleanQuery(req[r].query)
              /\ store'[Len(store')].telegram_links = req[r].tg_links
    /\ \A i \in 1..Len(store') :
          store'[i].h_origin.by = "search" =>
              /\ Len(store'[i].h_origin.links) >= 1
              /\ Len(store'[i].telegram_links) >= 1

ViewFindStep(r) ==
    req[r].kind = "view" /\ req[r].pc = "view" /\ req'[r].pc # "view"

ViewIncStep(r) ==
    req[r].kind = "view" /\ req[r].pc = "inc" /\ req'[r].pc # "inc"

\* the view increments sent so far for a viewer on an Entry
Counted(viewer, id) ==
    {i \in 1..Len(viewlog) : viewlog[i].viewer = viewer /\ viewlog[i].id = id}

\* a view of the Entry by the viewer was counted less than a cooldown ago
InCooldown(viewer, id) ==
    \E i \in Counted(viewer, id) : now < viewlog[i].at + MaxAge

\* C13: for view requests of one Entry issued one after another by the same
\* viewer, whose browser holds the markers of the earlier responses: a view
\* with no counted view of that viewer and Entry within the cooldown (the
\* first view, or the first after expiry) increments views by 1, and a
\* further view within the cooldown leaves views unchanged and still renders
\* the Entry.
C13_OncePerCooldown ==
    [][\A r \in Slots :
          /\ (ViewFindStep(r) /\ FindOne(store, SearchTermOf(req[r].slug)) # NoDoc) =>
                LET anime == FindOne(store, SearchTermOf(req[r].slug))
                IN IF InCooldown(req[r].viewer, anime.id)
                   THEN /\ req'[r].pc = "done"
                        /\ req'[r].resp.status = "200"
                        /\ store' = store
                   ELSE req'[r].pc = "inc"
          /\ ViewIncStep(r) =>
                /\ Len(store') = Len(store)
                /\ \A i \in 1..Len(store) :
                      store'[i].views =
                          store[i].views
                              + (IF store[i].id = req[r].anime.id THEN 1 ELSE 0)]_vars

\* C14: under any interleaving of view requests, also with several requests
\* of one viewer in flight before a response has delivered the marker, views
\* of an Entry grows by at most 1 per (viewer, Entry) pair within one
\* cooldown window: no two increments for the same viewer and Entry are less
\* than the cooldown apart.
C14_OncePerWindowAnyInterleaving ==
    \A i, j \in 1..Len(viewlog) :
        (/\ i < j
         /\ viewlog[i].viewer = viewlog[j].viewer
         /\ viewlog[i].id = viewlog[j].id) =>
            viewlog[j].at >= viewlog[i].at + MaxAge

\* the step in which admin add r writes
AdminWriteStep(r) ==
    req[r].kind = "admin" /\ req[r].pc = "write" /\ req'[r].pc = "done"

\* C15: an admin add for a search keyword whose normalized form already has
\* an Entry overwrites title, synopsis, thumbnail and links of that Entry in
\* place and leaves its views, likes, dislikes, reports, liked_ips and
\* disliked_ips unchanged; when no Entry exists it creates one with all
\* counters zero and both vote-sets empty; either way the store holds one
\* Entry for that key afterwards.
C15_AdminUpsert ==
    [][\A r \in Slots :
          AdminWriteStep(r) =>
              LET form == req[r].form
                  key == CleanQuery(form.search_keyword)
                  first == Min(Matching(store, key))
                  last == store'[Len(store')]
              IN /\ Matching(store, key) # {} =>
                      /\ Len(store') = Len(store)
                      /\ \A i \in 1..Len(store) : i # first => store'[i] = store[i]
                      /\ store'[first].title = form.title
                      /\ store'[first].synopsis = form.synopsis
                      /\ store'[first].thumbnail = form.thumbnail
                      /\ store'[first].telegram_links = <<form.telegram_link>>
                      /\ VoteFields(store'[first]) = VoteFields(store[first])
                      /\ store'[first].views = store[first].views
                      /\ store'[first].reports = store[first].reports
                 /\ Matching(store, key) = {} =>
                      /\ Len(store') = Len(store) + 1
                      /\ SubSeq(store', 1, Len(store)) = store
                      /\ last.search_term = key
                      /\ last.title = form.title
                      /\ last.views = 0 /\ last.reports = 0
                      /\ VoteFields(last) = [likes |-> 0, dislikes |-> 0,
                                             liked_ips |-> {}, disliked_ips |-> {}]
                 /\ Cardinality(Matching(store', key)) = 1]_vars

\* a raw query that is empty or made of spaces only
Blank(query) == \A i \in 1..Len(query) : query[i] = " "

\* C16: a resolution whose raw query is empty or whitespace-only is rejected
\* with a validation error before the cache lookup: it takes no step that
\* reads the store, calls an external adapter or inserts, and what it
\* returns is neither a success nor the Not Found result.
C16_BlankQueryRejected ==
    [][\A r \in Slots :
          (req[r].kind = "search" /\ Blank(req[r].query)) =>
              /\ ~LookupStep(r)
              /\ ~FetchStep(r)
              /\ ~InsertStep(r)
              /\ req[r].ext = {}
              /\ req[r].pc = "done" =>
                    /\ req[r].resp.status # "success"
                    /\ req[r].resp # [status |-> "error", message |-> "Not Found"]]_vars

\* the step in which resolution r calls the notifier and returns
NotifyStep(r) ==
    req[r].kind = "search" /\ req[r].pc = "notify" /\ req'[r].pc # "notify"

\* C17: in a resolution that creates an Entry, the notification is emitted
\* only after the insert, and a failing notifier is never surfaced: whatever
\* the notifier does, the caller gets the success result with the new-entry
\* source and the Entry stays persisted.
C17_NotifierNeverSurfaced ==
    [][\A r \in Slots :
          /\ (req[r].kind = "search" /\ req[r].pc # "done") =>
                req[r].ext \cap {"notifier", "notifier_failed"} = {}
          /\ NotifyStep(r) =>
                /\ store # <<>>
                /\ store[Len(store)].h_origin.by = "search"
                /\ store[Len(store)].h_origin.query = req[r].query
                /\ store' = store
                /\ req'[r].pc = "done"
                /\ req'[r].resp.status = "success"
                /\ req'[r].resp.source = "fetched_new"]_vars

\* the step in which resolution r returns
ReturnStep(r) ==
    req[r].kind = "search" /\ req[r].pc # "done" /\ req'[r].pc = "done"

\* C18: when two concurrent resolutions miss the cache for the same
\* normalized query, the one that loses the create race does not insert (no
\* insert happens while the store holds an Entry for the query), and a
\* resolution that returns success returns the title and links of the Entry
\* stored for its query, as a new entry only when that Entry is its own.
C18_LoserReturnsWinner ==
    [][\A r \in Slots :
          /\ InsertStep(r) => FindOne(store, CleanQuery(req[r].query)) = NoDoc
          /\ (ReturnStep(r) /\ req'[r].resp.status = "success") =>
                LET stored == FindOne(store', CleanQuery(req[r].query))
                IN /\ stored # NoDoc
                   /\ req'[r].resp.title = stored.title
                   /\ req'[r].resp.links = stored.telegram_links
                   /\ req'[r].resp.source = "fetched_new" =>
                         stored.h_origin.query = req[r].query]_vars

\* C19: in every reachable state, under any sequence or interleaving of
\* search, view, vote and admin requests, views, likes, dislikes and reports
\* of every Entry are non-negative integers.
C19_CountersNonNegative ==
    \A d \in Docs :
        /\ d.views \in Nat
        /\ d.likes \in Nat
        /\ d.dislikes \in Nat
        /\ d.reports \in Nat

\* C20: slug round trip: for every normalized query under which an Entry is
\* stored, also one with a hyphen or a run of spaces, the slug in its
\* generated_url, mapped back as the view and action routes map it, is that
\* search_term, so the routes find the Entry through its canonical URL, and
\* two stored Entries with different search_terms never share a slug.
C20_SlugRoundTrip ==
    /\ \A d \in Docs :
          /\ SearchTermOf(SlugIn(d.generated_url)) = d.search_term
          /\ FindOne(store, SearchTermOf(SlugIn(d.generated_url))) # NoDoc
          /\ FindOne(store, SearchTermOf(SlugIn(d.generated_url))).search_term
                 = d.search_term
    /\ \A d1, d2 \in Docs :
          d1.search_term # d2.search_term =>
              SlugIn(d1.generated_url) # SlugIn(d2.generated_url)

=============================================================================
